---- MODULE Spec2Model ----
(***************************************************************************)
(* Model of the voicebot reasoning loop (src/main.py): one turn of         *)
(* _palm_react, the text-marker parsing of the model response, the eval    *)
(* of the extracted call, and the msgs.json conversation store             *)
(* (save_msgs / get_msgs), with turns run on thread-pool workers.          *)
(*                                                                         *)
(* Text is a sequence of tokens.  The three markers of the protocol and    *)
(* the lexemes of a call are single tokens; whitespace, quotes and the     *)
(* backslash are single characters, so that split, strip, repr and the     *)
(* JSON escaping act on them as they do on Python strings.                 *)
(*                                                                         *)
(* The text of a history is taken to fit the file object's buffer, so      *)
(* that save_msgs reaches the file twice: the truncation at open and one   *)
(* write of the whole text at close.  Loads reads the texts such writes    *)
(* can leave: a dumped list, nothing, or a dumped list with the tail of a  *)
(* longer one after it.                                                    *)
(***************************************************************************)
EXTENDS Integers, Sequences, FiniteSets, TLC

\* ------------------------------------------------------------ bounds
\* Turns started in one behaviour.
MaxTurns == 2
\* Process crashes (kill and restart) in one behaviour.
MaxCrashes == 1
\* Longest model response drawn for the parsing specification.
MaxLen == 3
\* Longest history drawn for the store specification.
MaxMsgs == 2

\* ------------------------------------------------------------ tokens
ActionMark == "Action: "
PauseMark == "<< PAUSE >>"
AnswerMark == "Answer:"
ObservationMark == "Observation: "
Thought == "Thought: x"
SP == " "
NL == "\n"
SQ == "'"
DQ == "\""
BS == "\\"
\* A call of a registered action, a call of it with an argument it rejects,
\* a call of a name that is not defined, a literal and a bare word.
CALL == "get_unread_emails()"
BADCALL == "get_unread_emails(n=0)"
UNKNOWN == "delete_everything()"
LIT == "42"
WORD == "Hello"

Whitespace == {SP, NL}

\* --------------------------------------------------- Python str methods
RECURSIVE IndexFrom(_, _, _)
\* Index of the first occurrence of token m in s at or after i, 0 if none.
IndexFrom(s, m, i) ==
    IF i > Len(s) THEN 0
    ELSE IF s[i] = m THEN i
    ELSE IndexFrom(s, m, i + 1)

RECURSIVE LastIndex(_, _, _)
\* Index of the last occurrence of token m in s at or before i, 0 if none.
LastIndex(s, m, i) ==
    IF i < 1 THEN 0
    ELSE IF s[i] = m THEN i
    ELSE LastIndex(s, m, i - 1)

Contains(s, m) == IndexFrom(s, m, 1) # 0

\* s.split(m)[-1]: the text after the last m, all of s when m is absent.
SplitLast(s, m) == SubSeq(s, LastIndex(s, m, Len(s)) + 1, Len(s))

\* s.split(m)[0]: the text before the first m, all of s when m is absent.
SplitFirst(s, m) ==
    LET i == IndexFrom(s, m, 1)
    IN IF i = 0 THEN s ELSE SubSeq(s, 1, i - 1)

RECURSIVE LStripSet(_, _)
LStripSet(s, cs) ==
    IF s # <<>> /\ Head(s) \in cs THEN LStripSet(Tail(s), cs) ELSE s

RECURSIVE RStripSet(_, _)
RStripSet(s, cs) ==
    IF s # <<>> /\ s[Len(s)] \in cs
    THEN RStripSet(SubSeq(s, 1, Len(s) - 1), cs)
    ELSE s

\* s.strip(chars)
StripSet(s, cs) == RStripSet(LStripSet(s, cs), cs)

\* s.strip(): the marker "Action: " ends with a space, which strip() removes
\* when the marker is the last thing of s.
Strip(s) ==
    LET t == StripSet(s, Whitespace)
    IN IF t # <<>> /\ t[Len(t)] = ActionMark
       THEN SubSeq(t, 1, Len(t) - 1) \o <<"Action:">>
       ELSE t

RECURSIVE ReprBody(_, _)
\* The escaping repr() applies inside the quotes q it chose.
ReprBody(s, q) ==
    IF s = <<>> THEN <<>>
    ELSE LET c == Head(s)
             e == IF c = BS THEN <<BS, BS>>
                  ELSE IF c = NL THEN <<BS, "n">>
                  ELSE IF c = q THEN <<BS, q>>
                  ELSE <<c>>
         IN e \o ReprBody(Tail(s), q)

\* repr(s) of a str: double quotes only when s holds a single quote and no
\* double quote.
Repr(s) ==
    LET q == IF Contains(s, SQ) /\ ~Contains(s, DQ) THEN DQ ELSE SQ
    IN <<q>> \o ReprBody(s, q) \o <<q>>

\* main.py:260-261, the text handed to eval.
ExtractCode(response) ==
    LET code == Strip(SplitFirst(SplitLast(response, ActionMark), PauseMark))
    IN StripSet(StripSet(Repr(code), {SQ}), {DQ})

\* A variant that answers nothing when the marker is absent.
ExtractAnswerOrEmpty(response) ==
    IF Contains(response, AnswerMark)
    THEN Strip(SplitLast(response, AnswerMark))
    ELSE <<>>

\* main.py:293, the value a turn returns.
ExtractAnswer(response) == Strip(SplitLast(response, AnswerMark))


\* ------------------------------------------------------------ messages
User(content) == [author |-> "user", content |-> content]
Assistant(content) == [author |-> "assistant", content |-> content]

\* ------------------------------------------------- json.dump / json.load
RECURSIVE EscapeJson(_)
\* The escapes json.dump writes inside a string.
EscapeJson(s) ==
    IF s = <<>> THEN <<>>
    ELSE LET c == Head(s)
             e == IF c = DQ THEN <<BS, DQ>>
                  ELSE IF c = BS THEN <<BS, BS>>
                  ELSE IF c = NL THEN <<BS, "n">>
                  ELSE <<c>>
         IN e \o EscapeJson(Tail(s))

\* A variant that writes the characters of a string as they are.
DumpStrNoEscape(s) == <<DQ>> \o s \o <<DQ>>

DumpStr(s) == <<DQ>> \o EscapeJson(s) \o <<DQ>>

DumpMsg(m) ==
    <<"{">> \o DumpStr(<<"author">>) \o <<": ">> \o DumpStr(<<m.author>>)
    \o <<", ">> \o DumpStr(<<"content">>) \o <<": ">> \o DumpStr(m.content)
    \o <<"}">>

RECURSIVE DumpItems(_)
DumpItems(msgs) ==
    IF msgs = <<>> THEN <<>>
    ELSE IF Len(msgs) = 1 THEN DumpMsg(msgs[1])
    ELSE DumpMsg(msgs[1]) \o <<", ">> \o DumpItems(Tail(msgs))

\* json.dumps(msgs): the text of a list of {"author", "content"} objects.
Dumps(msgs) == <<"[">> \o DumpItems(msgs) \o <<"]">>

Fail == [ok |-> FALSE, val |-> <<>>, next |-> 0]

RECURSIVE ScanStr(_, _, _)
\* The characters of a JSON string from position j to its closing quote.
ScanStr(f, j, acc) ==
    IF j > Len(f) THEN Fail
    ELSE IF f[j] = DQ THEN [ok |-> TRUE, val |-> acc, next |-> j + 1]
    ELSE IF f[j] = BS THEN
        IF j + 1 > Len(f) THEN Fail
        ELSE IF f[j + 1] \in {DQ, BS} THEN ScanStr(f, j + 2, Append(acc, f[j + 1]))
        ELSE IF f[j + 1] = "n" THEN ScanStr(f, j + 2, Append(acc, NL))
        ELSE Fail
    ELSE IF f[j] \in {NL, "NUL"} THEN Fail
    ELSE ScanStr(f, j + 1, Append(acc, f[j]))

ParseStr(f, i) ==
    IF i > Len(f) \/ f[i] # DQ THEN Fail ELSE ScanStr(f, i + 1, <<>>)

Expect(f, i, tok) == i <= Len(f) /\ f[i] = tok

\* One {"author": ..., "content": ...} object at position i.
ParseMsg(f, i) ==
    LET k1 == ParseStr(f, i + 1)
        v1 == ParseStr(f, k1.next + 1)
        k2 == ParseStr(f, v1.next + 1)
        v2 == ParseStr(f, k2.next + 1)
    IN IF /\ Expect(f, i, "{")
          /\ k1.ok /\ k1.val = <<"author">> /\ Expect(f, k1.next, ": ")
          /\ v1.ok /\ Len(v1.val) = 1 /\ Expect(f, v1.next, ", ")
          /\ k2.ok /\ k2.val = <<"content">> /\ Expect(f, k2.next, ": ")
          /\ v2.ok /\ Expect(f, v2.next, "}")
       THEN [ok |-> TRUE,
             val |-> [author |-> v1.val[1], content |-> v2.val],
             next |-> v2.next + 1]
       ELSE Fail

RECURSIVE ParseItems(_, _, _)
\* The objects of the list from position i to the closing bracket.
ParseItems(f, i, acc) ==
    LET m == ParseMsg(f, i)
    IN IF ~m.ok THEN Fail
       ELSE IF Expect(f, m.next, "]")
            THEN [ok |-> TRUE, val |-> Append(acc, m.val), next |-> m.next + 1]
       ELSE IF Expect(f, m.next, ", ")
            THEN ParseItems(f, m.next + 1, Append(acc, m.val))
       ELSE Fail

\* json.loads(f) of a text made of what json.dump writes: the list, or a
\* failure (JSONDecodeError) for an empty, cut or overwritten text and for
\* text after the closing bracket.
Loads(f) ==
    LET r == IF ~Expect(f, 1, "[") THEN Fail
             ELSE IF Expect(f, 2, "]")
                  THEN [ok |-> TRUE, val |-> <<>>, next |-> 3]
             ELSE ParseItems(f, 2, <<>>)
    IN IF r.ok /\ r.next = Len(f) + 1 THEN r ELSE Fail

\* ---------------------------------------------------------- msgs.json
NoFile == [exists |-> FALSE, data |-> <<>>]

\* open("msgs.json", "w"): creates the file or truncates it to nothing.
OpenForWrite(f) == [exists |-> TRUE, data |-> <<>>]

\* A write of chunk at offset pos of the open file: bytes it covers are
\* replaced, a gap left by a truncation in between reads as NUL.
WriteAt(f, pos, chunk) ==
    LET old == f.data
        n == IF Len(old) > pos + Len(chunk) THEN Len(old) ELSE pos + Len(chunk)
    IN [exists |-> TRUE,
        data |-> [i \in 1..n |->
                    IF i > pos /\ i <= pos + Len(chunk) THEN chunk[i - pos]
                    ELSE IF i <= Len(old) THEN old[i]
                    ELSE "NUL"]]

\* save_msgs(msgs) run from open to close, main.py:347-349.
SaveMsgs(f, msgs) == WriteAt(OpenForWrite(f), 0, Dumps(msgs))

\* get_msgs(): [] when the file is missing, else json.load of its text.
ReadMsgs(f) ==
    IF ~f.exists THEN [ok |-> TRUE, val |-> <<>>, next |-> 0] ELSE Loads(f.data)

\* ----------------------------------------------------------------- eval
\* An identifier: the bare word, with words and digits glued to it.
IsName(c) ==
    /\ c # <<>>
    /\ c[1] = WORD
    /\ \A i \in 2..Len(c) : c[i] \in {WORD, LIT}

\* A call of a name that is not one of the registered actions.
IsUnknownCall(c) ==
    \/ c = <<UNKNOWN>>
    \/ /\ Len(c) >= 2
       /\ IsName(SubSeq(c, 1, Len(c) - 1))
       /\ c[Len(c)] \in {CALL, BADCALL, UNKNOWN}

IsNumber(c) == c # <<>> /\ \A i \in 1..Len(c) : c[i] = LIT

RECURSIVE Unquote(_, _, _)
\* The value of the string literal c, read from position i: an unescaped
\* quote before the end, or a backslash before the closing quote, is a
\* syntax error.
Unquote(c, i, acc) ==
    IF i > Len(c) THEN Fail
    ELSE IF i = Len(c) THEN
        IF c[i] = c[1] THEN [ok |-> TRUE, val |-> acc, next |-> i + 1] ELSE Fail
    ELSE IF c[i] = c[1] THEN Fail
    ELSE IF c[i] = BS THEN
        IF i + 1 >= Len(c) THEN Fail
        ELSE IF c[i + 1] \in {BS, SQ, DQ} THEN Unquote(c, i + 2, Append(acc, c[i + 1]))
        ELSE IF c[i + 1] = "n" THEN Unquote(c, i + 2, Append(acc, NL))
        ELSE IF c[i + 1] = LIT THEN Unquote(c, i + 2, Append(acc, DQ))
        ELSE Unquote(c, i + 2, acc \o <<BS, c[i + 1]>>)
    ELSE Unquote(c, i + 1, Append(acc, c[i]))

StringValue(c) ==
    IF Len(c) >= 2 /\ c[1] \in {SQ, DQ} THEN Unquote(c, 2, <<>>) ELSE Fail

\* The outcomes of eval(code): a value (with its str()), or the exception
\* raised; invoked counts the registered actions the evaluation calls.
\* A registered action fails when its argument is bad or the network does.
EvalOutcomes(code) ==
    LET c == StripSet(code, {SP})
    IN IF c = <<CALL>> THEN
           {[kind |-> "value", str |-> <<"[]">>, invoked |-> 1],
            [kind |-> "HttpError", str |-> <<>>, invoked |-> 1]}
       ELSE IF c = <<BADCALL>> THEN
           {[kind |-> "ValueError", str |-> <<>>, invoked |-> 1],
            [kind |-> "HttpError", str |-> <<>>, invoked |-> 1]}
       ELSE IF IsNumber(c) THEN
           {[kind |-> "value", str |-> c, invoked |-> 0]}
       ELSE IF StringValue(c).ok THEN
           {[kind |-> "value", str |-> StringValue(c).val, invoked |-> 0]}
       ELSE IF IsName(c) \/ IsUnknownCall(c) THEN
           {[kind |-> "NameError", str |-> <<>>, invoked |-> 0]}
       ELSE {[kind |-> "SyntaxError", str |-> <<>>, invoked |-> 0]}

\* ------------------------------------------------------- the model's input
\* What the hosted model may answer to the first request of a turn.
Responses1 ==
    { <<AnswerMark, SP, WORD>>,
      <<WORD>>,
      <<CALL>>,
      <<Thought, NL, ActionMark, CALL, NL, PauseMark>>,
      <<ActionMark, BADCALL, PauseMark>>,
      <<ActionMark, UNKNOWN, PauseMark, NL, AnswerMark, SP, WORD>>,
      <<ActionMark, UNKNOWN, PauseMark>>,
      <<PauseMark, ActionMark, LIT>> }

\* What it may answer to the "Answer:" request.
Responses2 ==
    { <<AnswerMark, NL, WORD, SP>>,
      <<SP, DQ, WORD, DQ, NL>> }

\* The caller's utterance of the n-th turn (onaudio strips it and starts no
\* turn for an empty one).
Utterance(n) == <<"utterance", ToString(n)>>

NextPrompt == <<AnswerMark>>

\* --------------------------------------------------------------- state
Workers == {"w1", "w2"}

VARIABLES
    file,       \* msgs.json: [exists, data]
    w,          \* per thread-pool worker, the frame of its _palm_react call
    nturns,     \* turns started
    ncrashes,   \* process crashes
    returned,   \* prompts of the turns that returned an answer
    inp,        \* the input drawn for a pure function
    out         \* what the function made of it

vars == <<file, w, nturns, ncrashes, returned, inp, out>>

\* A worker with no call of _palm_react on its stack.
Idle ==
    [pc |-> "idle", prompt |-> <<>>, history |-> <<>>, h0 |-> <<>>,
     response |-> <<>>, r1 |-> <<>>, code |-> <<>>, kind |-> "",
     observation |-> <<>>, sent |-> <<>>, log |-> <<>>, nchat |-> 0,
     ninvoke |-> 0, answer |-> <<>>, error |-> "", f0 |-> NoFile]

NoInput == <<>>

NoOutput == [stage |-> "none", ok |-> TRUE, val |-> <<>>, before |-> NoFile]

Init ==
    /\ file = NoFile
    /\ w = [t \in Workers |-> Idle]
    /\ nturns = 0
    /\ ncrashes = 0
    /\ returned = {}
    /\ inp = NoInput
    /\ out = NoOutput

Pure == UNCHANGED <<inp, out>>

\* ----------------------------------------------------------- _palm_chat
\* main.py:306-309, the messages of a request.
\* A variant that sends the history without the new prompt.
ChatMessagesNoPrompt(prompt, history) == history

ChatMessages(prompt, history) == history \o <<User(prompt)>>

\* ---------------------------------------------------------- _palm_react
\* A variant that records the response without the user message.
NoActionHistoryNoUser(history, prompt, response) ==
    history \o <<Assistant(response)>>

\* main.py:268-271
NoActionHistory(history, prompt, response) ==
    history \o <<User(prompt), Assistant(response)>>

\* A variant that leaves the Observation line out.
ObservationMessageNoObservation(response, observation) ==
    Assistant(Strip(SplitFirst(response, PauseMark)) \o <<NL, PauseMark, NL>>)

\* main.py:276-281
ObservationMessage(response, observation) ==
    Assistant(Strip(SplitFirst(response, PauseMark))
              \o <<NL, PauseMark, NL>>
              \o <<ObservationMark>> \o observation)

\* onaudio, main.py:211: a turn starts on a free worker of the thread pool.
Start(t) ==
    /\ w[t].pc \in {"idle", "done", "failed"}
    /\ nturns < MaxTurns
    /\ nturns' = nturns + 1
    /\ w' = [w EXCEPT ![t] = [Idle EXCEPT !.pc = "load",
                                          !.prompt = Utterance(nturns + 1),
                                          !.f0 = file]]
    /\ UNCHANGED <<file, ncrashes, returned>>
    /\ Pure

\* main.py:257, history = get_msgs(); a text json.load rejects ends the turn.
GetMsgs(t) ==
    /\ w[t].pc = "load"
    /\ LET r == ReadMsgs(file)
       IN w' = [w EXCEPT ![t] =
                  IF r.ok
                  THEN [@ EXCEPT !.pc = "chat1", !.history = r.val, !.h0 = r.val]
                  ELSE [@ EXCEPT !.pc = "failed", !.error = "JSONDecodeError"]]
    /\ UNCHANGED <<file, nturns, ncrashes, returned>>
    /\ Pure

\* main.py:258-261, the first model call and the parse of its response.
Chat1(t) ==
    /\ w[t].pc = "chat1"
    /\ \E r \in Responses1 :
         w' = [w EXCEPT ![t] =
                 [@ EXCEPT !.pc = "eval",
                           !.sent = ChatMessages(w[t].prompt, w[t].history),
                           !.nchat = @ + 1,
                           !.log = Append(@, "chat"),
                           !.response = r,
                           !.r1 = r,
                           !.code = ExtractCode(r)]]
    /\ UNCHANGED <<file, nturns, ncrashes, returned>>
    /\ Pure

\* A variant that saves the history in hand before the failure leaves.
ChatFailSaves(t) ==
    /\ w[t].pc \in {"chat1", "chat2"}
    /\ w' = [w EXCEPT ![t] = [@ EXCEPT !.pc = "failed",
                                       !.nchat = @ + 1,
                                       !.log = Append(@, "chat"),
                                       !.error = "ModelError"]]
    /\ file' = SaveMsgs(file, w[t].history \o <<User(w[t].prompt)>>)
    /\ UNCHANGED <<nturns, ncrashes, returned>>
    /\ Pure

\* main.py:320, the request fails (assert r.ok, or the transport raises).
ChatFail(t) ==
    /\ w[t].pc \in {"chat1", "chat2"}
    /\ w' = [w EXCEPT ![t] =
               [@ EXCEPT !.pc = "failed",
                         !.sent = ChatMessages(
                             IF w[t].pc = "chat1" THEN w[t].prompt ELSE NextPrompt,
                             w[t].history),
                         !.nchat = @ + 1,
                         !.log = Append(@, "chat"),
                         !.error = "ModelError"]]
    /\ UNCHANGED <<file, nturns, ncrashes, returned>>
    /\ Pure

\* main.py:263-282, eval(code) and the branch it takes.
Caught == {"SyntaxError", "NameError"}

AfterEval(f, o) ==
    LET g == [f EXCEPT !.kind = o.kind,
                       !.ninvoke = @ + o.invoked,
                       !.log = IF o.invoked > 0 THEN Append(@, "invoke") ELSE @]
    IN IF o.kind \in Caught THEN
           [g EXCEPT !.pc = "save",
                     !.history = NoActionHistory(f.history, f.prompt, f.response)]
       ELSE IF o.kind = "value" THEN
           [g EXCEPT !.pc = "chat2",
                     !.observation = o.str,
                     !.history = f.history
                         \o <<User(f.prompt), ObservationMessage(f.response, o.str)>>]
       ELSE [g EXCEPT !.pc = "failed", !.error = "ActionError"]

EvalCode(t) ==
    /\ w[t].pc = "eval"
    /\ \E o \in EvalOutcomes(w[t].code) :
         w' = [w EXCEPT ![t] = AfterEval(w[t], o)]
    /\ UNCHANGED <<file, nturns, ncrashes, returned>>
    /\ Pure

\* main.py:283-289, the second model call.
Chat2(t) ==
    /\ w[t].pc = "chat2"
    /\ \E r \in Responses2 :
         w' = [w EXCEPT ![t] =
                 [@ EXCEPT !.pc = "save",
                           !.sent = ChatMessages(NextPrompt, w[t].history),
                           !.nchat = @ + 1,
                           !.log = Append(@, "chat"),
                           !.response = r,
                           !.history = w[t].history
                               \o <<User(NextPrompt), Assistant(r)>>]]
    /\ UNCHANGED <<file, nturns, ncrashes, returned>>
    /\ Pure

\* main.py:348, open("msgs.json", "w") truncates the file.
SaveOpen(t) ==
    /\ w[t].pc = "save"
    /\ file' = OpenForWrite(file)
    /\ w' = [w EXCEPT ![t] = [@ EXCEPT !.pc = "write", !.log = Append(@, "save")]]
    /\ UNCHANGED <<nturns, ncrashes, returned>>
    /\ Pure

\* main.py:348, open fails (OSError) and leaves the file as it is.
SaveOpenFail(t) ==
    /\ w[t].pc = "save"
    /\ w' = [w EXCEPT ![t] = [@ EXCEPT !.pc = "failed",
                                       !.log = Append(@, "save"),
                                       !.error = "OSError"]]
    /\ UNCHANGED <<file, nturns, ncrashes, returned>>
    /\ Pure

\* main.py:349 and the end of the with block: json.dump fills the buffer,
\* close writes it at offset 0; then main.py:293 returns the answer.
SaveClose(t) ==
    /\ w[t].pc = "write"
    /\ file' = WriteAt(file, 0, Dumps(w[t].history))
    /\ w' = [w EXCEPT ![t] = [@ EXCEPT !.pc = "done",
                                       !.log = Append(@, "return"),
                                       !.answer = ExtractAnswer(w[t].response)]]
    /\ returned' = returned \cup {w[t].prompt}
    /\ UNCHANGED <<nturns, ncrashes>>
    /\ Pure

\* main.py:349, the write fails (OSError, disk full): the file stays cut.
SaveWriteFail(t) ==
    /\ w[t].pc = "write"
    /\ w' = [w EXCEPT ![t] = [@ EXCEPT !.pc = "failed", !.error = "OSError"]]
    /\ UNCHANGED <<file, nturns, ncrashes, returned>>
    /\ Pure

\* The process is killed and started again: every call in flight is gone,
\* the file is what the writes so far made it.
Crash ==
    /\ ncrashes < MaxCrashes
    /\ \E t \in Workers : w[t].pc \notin {"idle", "done", "failed"}
    /\ ncrashes' = ncrashes + 1
    /\ w' = [t \in Workers |-> Idle]
    /\ UNCHANGED <<file, nturns, returned>>
    /\ Pure

Step(t) ==
    \/ Start(t)
    \/ GetMsgs(t)
    \/ Chat1(t)
    \/ ChatFail(t)
    \/ EvalCode(t)
    \/ Chat2(t)
    \/ SaveOpen(t)
    \/ SaveOpenFail(t)
    \/ SaveClose(t)
    \/ SaveWriteFail(t)

Next == (\E t \in Workers : Step(t)) \/ Crash

Spec == Init /\ [][Next]_vars

\* ------------------------------------------------ turns one at a time
\* The store as a first turn may find it: missing, or holding the empty list.
EmptyStore == [exists |-> TRUE, data |-> Dumps(<<>>)]

InitSeq ==
    /\ file \in {NoFile, EmptyStore}
    /\ w = [t \in Workers |-> Idle]
    /\ nturns = 0
    /\ ncrashes = 0
    /\ returned = {}
    /\ inp = NoInput
    /\ out = NoOutput

\* No call of _palm_react is in flight.
AllQuiet == \A t \in Workers : w[t].pc \in {"idle", "done", "failed"}

\* The __main__ loop, main.py:365-368, and a caller who waits for the answer
\* before speaking again: a turn starts only when the last one has ended.
StartSeq(t) == AllQuiet /\ Start(t)

StepSeq(t) ==
    \/ StartSeq(t)
    \/ GetMsgs(t)
    \/ Chat1(t)
    \/ ChatFail(t)
    \/ EvalCode(t)
    \/ Chat2(t)
    \/ SaveOpen(t)
    \/ SaveOpenFail(t)
    \/ SaveClose(t)
    \/ SaveWriteFail(t)

NextSeq == (\E t \in Workers : StepSeq(t)) \/ Crash

SpecSeq == InitSeq /\ [][NextSeq]_vars

\* ------------------------------------------- the parse, on drawn responses
Alphabet ==
    {ActionMark, PauseMark, AnswerMark, SP, NL, SQ, DQ, BS,
     CALL, UNKNOWN, LIT, WORD}

SeqsUpTo(S, n) == UNION {[1..k -> S] : k \in 0..n}

Quiet ==
    /\ file = NoFile
    /\ w = [t \in Workers |-> Idle]
    /\ nturns = 0
    /\ ncrashes = 0
    /\ returned = {}

InitParse ==
    /\ Quiet
    /\ inp \in SeqsUpTo(Alphabet, MaxLen)
    /\ out = [NoOutput EXCEPT !.stage = "input"]

\* main.py:260-261 applied to the drawn response.
Parse ==
    /\ out.stage = "input"
    /\ out' = [out EXCEPT !.stage = "parsed", !.val = ExtractCode(inp)]
    /\ UNCHANGED <<file, w, nturns, ncrashes, returned, inp>>

SpecParse == InitParse /\ [][Parse]_vars

\* ------------------------------------------- the store, on drawn histories
StoreChars == {DQ, BS, NL, "n"}

Contents ==
    {<<>>} \cup {<<a>> : a \in StoreChars}
           \cup {<<a, b>> : a \in StoreChars, b \in StoreChars}

Messages == [author : {"user", "assistant"}, content : Contents]

InitStore ==
    /\ Quiet
    /\ inp \in SeqsUpTo(Messages, MaxMsgs)
    /\ out = [NoOutput EXCEPT !.stage = "input"]

\* save_msgs(H)
StoreSave ==
    /\ out.stage = "input"
    /\ file' = SaveMsgs(file, inp)
    /\ out' = [out EXCEPT !.stage = "saved"]
    /\ UNCHANGED <<w, nturns, ncrashes, returned, inp>>

\* get_msgs() after it
StoreLoad ==
    /\ out.stage = "saved"
    /\ LET r == ReadMsgs(file)
       IN out' = [out EXCEPT !.stage = "loaded", !.ok = r.ok, !.val = r.val]
    /\ UNCHANGED <<file, w, nturns, ncrashes, returned, inp>>

\* save_msgs(get_msgs()), on the store as first found or as just read.
StoreResave ==
    /\ out.stage \in {"input", "loaded"}
    /\ ReadMsgs(file).ok
    /\ file' = SaveMsgs(file, ReadMsgs(file).val)
    /\ out' = [out EXCEPT !.stage = "resaved", !.before = file]
    /\ UNCHANGED <<w, nturns, ncrashes, returned, inp>>

NextStore == StoreSave \/ StoreLoad \/ StoreResave

SpecStore == InitStore /\ [][NextStore]_vars

\* ------------------------------------------------------------- claims
\* The response holds an "Action: " marker with a "<< PAUSE >>" after it.
HasActionPause(r) ==
    \E i \in 1..Len(r) : r[i] = ActionMark /\ IndexFrom(r, PauseMark, i + 1) # 0

\* Every error the evaluation of a call may raise.
ActionErrors == {"SyntaxError", "NameError", "ValueError", "HttpError"}

IsPrefix(s, u) == Len(s) <= Len(u) /\ s = SubSeq(u, 1, Len(s))

\* C1: a turn whose first response R1 lacks the pair of an "Action: " marker
\* and a later "<< PAUSE >>" marker invokes no registered action and issues
\* no second model call.
C1_NoPairNoAction ==
    \A t \in Workers :
        ~HasActionPause(w[t].r1) => w[t].ninvoke = 0 /\ w[t].nchat <= 1

\* C2: whatever error the evaluation of the parsed call raises, the turn does
\* not end with that error: it goes on along the no-action path.
C2_ActionErrorsAbsorbed ==
    \A t \in Workers :
        w[t].kind \in ActionErrors =>
            ~(w[t].pc = "failed" /\ w[t].error = "ActionError")

\* C3: once every turn that was started has returned, the persisted history
\* holds the user message of each of them: no turn's messages are lost to
\* another turn's write.
C3_NoLostTurn ==
    (nturns > 0 /\ Cardinality(returned) = nturns) =>
        LET r == ReadMsgs(file)
        IN /\ r.ok
           /\ \A p \in returned : \E i \in 1..Len(r.val) : r.val[i] = User(p)

\* C4: a failure of the write of the store never ends a turn with an error.
C4_SaveFailureNotFatal ==
    \A t \in Workers : ~(w[t].pc = "failed" /\ w[t].error = "OSError")

\* C5: in every reachable state the persisted file, when there is one, reads
\* as a complete history, never as an empty or cut record.
C5_AtomicReplace == file.exists => Loads(file.data).ok

\* C6: the messages of every model request end with the user message of the
\* moment (the utterance at the first call, "Answer:" at the second), after
\* the history as loaded; at the second call exactly the utterance and one
\* assistant message stand between the two, the assistant message being the
\* part of R1 before "<< PAUSE >>", the marker, and the Observation line.
C6_RequestMessages ==
    \A t \in Workers :
        LET f == w[t]
            n == Len(f.h0)
        IN /\ f.nchat <= 2
           /\ f.nchat >= 1 =>
                /\ f.sent # <<>>
                /\ f.sent[Len(f.sent)].author = "user"
                /\ IsPrefix(f.h0, f.sent)
           /\ f.nchat = 1 => f.sent = f.h0 \o <<User(f.prompt)>>
           /\ f.nchat = 2 =>
                /\ Len(f.sent) = n + 3
                /\ f.sent[n + 1] = User(f.prompt)
                /\ f.sent[n + 2].author = "assistant"
                /\ f.sent[n + 2].content =
                       Strip(SplitFirst(f.r1, PauseMark))
                       \o <<NL, PauseMark, NL, ObservationMark>>
                       \o f.observation
                /\ f.sent[n + 3] = User(<<AnswerMark>>)

\* A second call, after an earlier turn, with an observation to show.
C6_Witness ==
    \E t \in Workers :
        w[t].nchat = 2 /\ w[t].h0 # <<>> /\ w[t].observation # <<>>

\* C7 as claimed: on the no-action path the answer is the text after the
\* "Answer:" marker of R1, and empty when R1 has no such marker.
C7_AnswerEmptyWithoutMarker ==
    \A t \in Workers :
        (w[t].pc = "done" /\ w[t].kind \in Caught) =>
            w[t].answer = IF Contains(w[t].r1, AnswerMark)
                          THEN Strip(SplitLast(w[t].r1, AnswerMark))
                          ELSE <<>>

\* C7 as amended: on the no-action path the turn appends exactly the raw user
\* message and the raw R1 and makes no second call; its answer is the trimmed
\* text after the last "Answer:" marker of R1, and the whole of R1, trimmed,
\* when R1 has no such marker.
C7_NoActionPath ==
    \A t \in Workers :
        LET f == w[t]
        IN f.kind \in Caught =>
             /\ f.history = f.h0 \o <<User(f.prompt), Assistant(f.r1)>>
             /\ f.nchat = 1
             /\ f.ninvoke = 0
             /\ f.pc = "done" =>
                  f.answer = IF Contains(f.r1, AnswerMark)
                             THEN Strip(SplitLast(f.r1, AnswerMark))
                             ELSE Strip(f.r1)

\* A returned no-action turn whose R1 has text but no "Answer:" marker.
C7_Witness ==
    \E t \in Workers :
        /\ w[t].pc = "done"
        /\ w[t].kind \in Caught
        /\ ~Contains(w[t].r1, AnswerMark)
        /\ w[t].answer # <<>>

ActionTurnLog == <<"chat", "invoke", "chat", "save", "return">>

\* C8: a turn whose R1 names a registered action that executes runs, in this
\* order, the first model call, one invocation, the second model call and the
\* save; the history it saves is the loaded one plus the utterance, the
\* observation message, the "Answer:" prompt and R2; it returns the trimmed
\* text after the "Answer:" marker of R2, or all of R2 trimmed without one.
C8_ActionTurn ==
    \A t \in Workers :
        LET f == w[t]
            n == Len(f.h0)
        IN (f.code = <<CALL>> /\ f.kind = "value") =>
             /\ IsPrefix(f.log, ActionTurnLog)
             /\ f.ninvoke = 1
             /\ f.pc \in {"chat2", "save", "write", "done", "failed"}
             /\ f.pc = "chat2" =>
                  /\ f.nchat = 1
                  /\ Len(f.history) = n + 2
                  /\ f.history[n + 2].content =
                         Strip(SplitFirst(f.r1, PauseMark))
                         \o <<NL, PauseMark, NL, ObservationMark, "[]">>
             /\ f.pc \in {"save", "write", "done"} =>
                  /\ f.nchat = 2
                  /\ f.sent = SubSeq(f.history, 1, n + 3)
                  /\ Len(f.history) = n + 4
                  /\ IsPrefix(f.h0, f.history)
                  /\ f.history[n + 1] = User(f.prompt)
                  /\ f.history[n + 3] = User(<<AnswerMark>>)
                  /\ f.history[n + 4] = Assistant(f.response)
             /\ f.pc = "done" =>
                  /\ f.log = ActionTurnLog
                  /\ f.answer = IF Contains(f.response, AnswerMark)
                                THEN Strip(SplitLast(f.response, AnswerMark))
                                ELSE Strip(f.response)

\* A returned action turn.
C8_Witness ==
    \E t \in Workers :
        /\ w[t].pc = "done"
        /\ w[t].code = <<CALL>>
        /\ w[t].kind = "value"
        /\ w[t].answer = <<WORD>>

\* The text between an "Action: " marker and the first "<< PAUSE >>" after
\* it, without the whitespace and the quote characters around it.
Trimmed(s) == StripSet(s, Whitespace \cup {SQ, DQ})

\* C9: for a response with "Action: ... << PAUSE >>" the text handed to eval
\* is the text between an "Action: " marker and the first "<< PAUSE >>" after
\* it, trimmed of whitespace and quotes and otherwise unchanged.
C9_ExactActionText ==
    (out.stage = "parsed" /\ HasActionPause(inp)) =>
        \E i \in 1..Len(inp) :
            /\ inp[i] = ActionMark
            /\ LET j == IndexFrom(inp, PauseMark, i + 1)
               IN j # 0 /\ out.val = Trimmed(SubSeq(inp, i + 1, j - 1))

\* C10 as claimed: get_msgs() after save_msgs(H) returns H, and
\* save_msgs(get_msgs()) leaves the persisted state as it was.
C10_RoundTripAndIdempotence ==
    /\ out.stage = "loaded" => out.ok /\ out.val = inp
    /\ out.stage = "resaved" => file = out.before

\* C10 as amended: get_msgs() after save_msgs(H) returns H; save_msgs(
\* get_msgs()) leaves an existing store file as it was, text for text, and
\* turns a missing one into a file that holds the empty history, which
\* get_msgs() reads as it read the missing one.
C10_RoundTrip ==
    /\ out.stage = "loaded" => out.ok /\ out.val = inp
    /\ out.stage = "resaved" =>
         /\ out.before.exists => file = out.before
         /\ ~out.before.exists => file = [exists |-> TRUE, data |-> <<"[", "]">>]
         /\ ReadMsgs(file).ok /\ ReadMsgs(out.before).ok
         /\ ReadMsgs(file).val = ReadMsgs(out.before).val

\* A history of two messages with a backslash in it, saved, read and saved
\* again.
C10_Witness ==
    /\ out.stage = "resaved"
    /\ out.before.exists
    /\ Len(inp) = 2
    /\ out.val = inp
    /\ \E i \in 1..2 : Contains(inp[i].content, BS)

\* The worker whose turn is the last one started.
IsCurrent(t) == nturns > 0 /\ w[t].prompt = Utterance(nturns)

\* C11: with turns one at a time, a turn that a failed model call ended has
\* not called save_msgs, and the store is as the turn found it when it
\* started, also when the failed call is the second one and the action of
\* the turn has run.
C11_ModelFailureLeavesStore ==
    \A t \in Workers :
        (IsCurrent(t) /\ w[t].error = "ModelError") =>
            /\ w[t].pc = "failed"
            /\ file = w[t].f0
            /\ ~Contains(w[t].log, "save")
            /\ w[t].answer = <<>>

\* The second call of a turn failed after its action ran, on a store that
\* holds an earlier turn.
C11_Witness ==
    \E t \in Workers :
        /\ IsCurrent(t)
        /\ w[t].error = "ModelError"
        /\ w[t].nchat = 2
        /\ w[t].ninvoke = 1
        /\ file.exists
        /\ Loads(file.data).ok
        /\ Loads(file.data).val # <<>>

\* The authors of a history alternate user, assistant, ..., user first.
Alternates(h) ==
    \A i \in 1..Len(h) :
        h[i].author = IF i % 2 = 1 THEN "user" ELSE "assistant"

\* What a completed turn adds: 2 messages when eval raised a caught error
\* (no action), 4 when eval gave a value (action).
Growth(kind) == IF kind \in Caught THEN 2 ELSE 4

\* C12: with turns one at a time from a missing or empty store, when a turn
\* completes the store holds the history the turn found as an unchanged
\* prefix, 2 messages longer for a no-action turn and 4 messages longer for
\* an action turn, and its authors alternate user, assistant, ... from user.
C12_HistoryGrowth ==
    \A t \in Workers :
        (IsCurrent(t) /\ w[t].pc = "done") =>
            LET old == ReadMsgs(w[t].f0)
                new == ReadMsgs(file)
            IN /\ old.ok
               /\ new.ok
               /\ IsPrefix(old.val, new.val)
               /\ Len(new.val) = Len(old.val) + Growth(w[t].kind)
               /\ Alternates(new.val)

\* A no-action turn completed first and an action turn completed after it:
\* the store holds 2 + 4 messages.
C12_Witness ==
    \E t \in Workers :
        /\ IsCurrent(t)
        /\ w[t].pc = "done"
        /\ w[t].kind = "value"
        /\ Len(ReadMsgs(w[t].f0).val) = 2
        /\ Len(ReadMsgs(file).val) = 6

====
